---- MODULE Spec2Model ----
(***************************************************************************)
(* Model of src/embed.py: the sentence-embedding pipeline.                 *)
(*                                                                         *)
(* One run is main() -> embedding_query(): load the input file, one HTTP   *)
(* request, pd.DataFrame(), the CSV sink, the database sink.  The process  *)
(* is sequential; pc is the position inside embedding_query.  The CSV file *)
(* and the database table outlive a run, everything else is per run.       *)
(***************************************************************************)
EXTENDS Integers, Sequences, FiniteSets, TLC

(* ------------------------------ bounds --------------------------------- *)
MaxRuns == 2        \* runs of the program in one behaviour
MaxSentences == 2   \* entries in the input file
MaxResp == 2        \* top-level elements of the API response
MaxAttempts == 3    \* cap on the per-run attempt counters

VARIABLES
  pc,           \* position: "init","load","request","assemble","csv","db","except","done"
  runs,         \* runs started so far
  sentences,    \* embedding_query: the list built at line 78
  output,       \* embedding_query: value returned by run_feature_extraction_pipeline
  assembled,    \* TRUE once line 82 has bound `embeddings`
  embeddings,   \* embedding_query: the DataFrame
  exc,          \* class of the exception in flight, "none" if none
  raised,       \* class of the failure raised inside requests.post / raise_for_status
  httpStatus,   \* response.status_code, 0 while there is no response
  log,          \* lines this run appended to log/pipeline.log
  exit,         \* how the run ended: "none", "ok", "uncaught"
  csvFile,      \* the file at output_file
  dbTable,      \* table `embeddings` of the database at db_file
  conn,         \* local `conn` of save_embeddings_to_db: "unbound","open","closed"
  httpCalls, csvAttempts, dbAttempts, connOpens, connCloses,  \* per-run counters
  csvBefore, dbBefore,   \* the sinks as they were when the run started
  hist          \* per sink: was a write ever / most recently successful, and with which table

vars == <<pc, runs, sentences, output, assembled, embeddings, exc, raised,
          httpStatus, log, exit, csvFile, dbTable, conn, httpCalls,
          csvAttempts, dbAttempts, connOpens, connCloses, csvBefore,
          dbBefore, hist>>

(* --------------------------- exception classes ------------------------- *)
\* Ancestors (itself included) of each exception class the program can meet.
Bases(cls) ==
  CASE cls = "HTTPError"        -> {"HTTPError", "RequestException", "Exception"}
    [] cls = "ConnectionError"  -> {"ConnectionError", "RequestException", "Exception"}
    [] cls = "ConnectTimeout"   -> {"ConnectTimeout", "ConnectionError", "Timeout",
                                    "RequestException", "Exception"}
    [] cls = "ReadTimeout"      -> {"ReadTimeout", "Timeout", "RequestException", "Exception"}
    [] cls = "TooManyRedirects" -> {"TooManyRedirects", "RequestException", "Exception"}
    [] OTHER                    -> {cls, "Exception"}

\* Failures requests.post itself can raise (no response object).
TransportFailures == {"ConnectionError", "ConnectTimeout", "ReadTimeout", "TooManyRedirects"}

\* Status codes of a received response.
Statuses == {200, 404, 500}

\* response.raise_for_status(): raises HTTPError for 4xx and 5xx.
raise_for_status(st) == st >= 400 /\ st < 600


(* ------------------------------ input file ----------------------------- *)
\* One record of the input file: with the expected key, or with another one.
Entries == {[sentence |-> "s"], [text |-> "s"]}

EntryLists == UNION {[1..n -> Entries] : n \in 0..MaxSentences}

\* What json.load can return: an object with or without the key "sentences".
JsonValues == {[sentences |-> l] : l \in EntryLists} \cup {[items |-> <<>>]}

\* The file at json_file_path.
InputFiles ==
  {[kind |-> "missing", texts |-> <<>>], [kind |-> "bad_json", texts |-> <<>>]}
    \cup {[kind |-> "json", texts |-> t] : t \in JsonValues}

\* Exception raised by lines 75-78 for this file, "none" if they succeed.
LoadError(file) ==
  IF file.kind = "missing" THEN "FileNotFoundError"
  ELSE IF file.kind = "bad_json" THEN "JSONDecodeError"
  ELSE IF "sentences" \notin DOMAIN file.texts THEN "KeyError"
  ELSE IF \E i \in 1..Len(file.texts.sentences) :
            "sentence" \notin DOMAIN file.texts.sentences[i] THEN "KeyError"
  ELSE "none"

\* sentences = [entry["sentence"] for entry in texts["sentences"]]
Sentences(file) ==
  [i \in 1..Len(file.texts.sentences) |-> file.texts.sentences[i].sentence]

(* ------------------------------ API response --------------------------- *)
\* Embedding vectors the service may return; they differ in length (ragged).
Vectors == {<<1, 2>>, <<3>>}

\* response.json(): a list of vectors, or a JSON object that is no table.
Bodies ==
  {[kind |-> "list", data |-> d] :
      d \in UNION {[1..m -> Vectors] : m \in 0..MaxResp}}
    \cup {[kind |-> "dict", data |-> <<>>]}

\* Python's None, what a function returns when it falls off its end.
None == [kind |-> "none", data |-> <<>>]

(* ------------------------------ DataFrame ------------------------------ *)
\* The absent value pandas puts where a short row has no element.
NaN == 0

NoTable == [cols |-> 0, rows |-> <<>>]

RECURSIVE MaxLen(_)
MaxLen(data) ==
  IF data = <<>> THEN 0
  ELSE LET r == MaxLen(Tail(data))
       IN  IF Len(Head(data)) > r THEN Len(Head(data)) ELSE r

\* pd.DataFrame(output) raises ValueError for an object of scalars.
DataFrameFails(out) == out.kind = "dict"

DataFrameDropsLast(out) ==
  LET d == IF out.data = <<>> THEN <<>> ELSE SubSeq(out.data, 1, Len(out.data) - 1)
  IN  [cols |-> MaxLen(d),
       rows |-> [i \in 1..Len(d) |->
                   [j \in 1..MaxLen(d) |->
                      IF j <= Len(d[i]) THEN d[i][j] ELSE NaN]]]

\* pd.DataFrame(output): one row per top-level element, as many columns as
\* the longest element, shorter rows filled with NaN.
DataFrame(out) ==
  [cols |-> MaxLen(out.data),
   rows |-> [i \in 1..Len(out.data) |->
               [j \in 1..MaxLen(out.data) |->
                  IF j <= Len(out.data[i]) THEN out.data[i][j] ELSE NaN]]]

(* -------------------------------- sinks -------------------------------- *)
\* A sink that holds nothing yet (no file, no table).
Absent == [exists |-> FALSE, header |-> <<>>, rows |-> <<>>]

\* Column names pandas gives a frame built from a list: 0, 1, ...
Header(table) == [j \in 1..table.cols |-> j - 1]

to_csv_append(old, table) ==
  [exists |-> TRUE, header |-> Header(table), rows |-> old.rows \o table.rows]

\* embeddings.to_csv(output_file, index=False): the file is rewritten.
to_csv(old, table) ==
  [exists |-> TRUE, header |-> Header(table), rows |-> table.rows]

\* A write that failed after the file was opened for writing (disk full):
\* the file holds the header and the first k rows.
csv_partial(table, k) ==
  [exists |-> TRUE, header |-> Header(table), rows |-> SubSeq(table.rows, 1, k)]

to_sql_append(old, table) ==
  [exists |-> TRUE, header |-> Header(table), rows |-> old.rows \o table.rows]

\* embeddings.to_sql('embeddings', conn, if_exists='replace', index=False)
to_sql(old, table) ==
  [exists |-> TRUE, header |-> Header(table), rows |-> table.rows]

\* A replace that failed after the old table was dropped and the new one
\* created: the table is there and empty.
sql_emptied(table) ==
  [exists |-> TRUE, header |-> Header(table), rows |-> <<>>]


(* -------------------- run_feature_extraction_pipeline ------------------ *)
ClausesTimeoutFirst == <<"HTTPError", "Timeout", "ConnectionError", "RequestException">>

\* The except clauses of lines 40-49, in the order they are written.
Clauses == <<"HTTPError", "ConnectionError", "Timeout", "RequestException">>

\* Python runs the first except clause whose class is the raised class or
\* one of its ancestors; 0 if no clause matches.
HandlerOf(cls) ==
  IF \E i \in 1..Len(Clauses) : Clauses[i] \in Bases(cls)
  THEN CHOOSE i \in 1..Len(Clauses) :
         /\ Clauses[i] \in Bases(cls)
         /\ \A j \in 1..(i - 1) : Clauses[j] \notin Bases(cls)
  ELSE 0

\* The message prefix each clause logs (lines 41, 44, 47, 50).
Label(clause) ==
  CASE clause = "HTTPError"        -> "HTTP Error"
    [] clause = "ConnectionError"  -> "Error Connecting"
    [] clause = "Timeout"          -> "Timeout Error"
    [] clause = "RequestException" -> "Request Exception"

ErrorLine(msg) == [level |-> "ERROR", msg |-> msg]

InfoLine(msg) == [level |-> "INFO", msg |-> msg]

ReraisesNot == FALSE

\* Every except clause of lines 40-51 ends in a bare `raise`.
Reraises == TRUE

(* ---------------------------- embedding_query -------------------------- *)
LoadGuardedYes == TRUE

\* Lines 75-78 stand before the `try:` of line 80.
LoadGuarded == FALSE

ExceptTargetRetry(step) == step

\* Where control goes when a statement of the try block (lines 81-84)
\* raises: the handler of line 85.
ExceptTarget(step) == "except"

CatchesOnlyLocal(cls) == "Exception" \in Bases(cls) /\ "RequestException" \notin Bases(cls)

\* `except Exception` (lines 58, 67, 85) catches every class derived from Exception.
Catches(cls) == "Exception" \in Bases(cls)

CsvSinkReraises == TRUE

\* save_embeddings_to_csv's handler (lines 58-59) has no `raise`.
CsvSinkRaises == FALSE

(* -------------------------- save_embeddings_to_db ---------------------- *)
LeaveOpenOnFailure(c, failed) == IF c = "open" /\ ~failed THEN "closed" ELSE c

\* finally: if conn: conn.close()   (lines 69-71)
Finally(c, failed) == IF c = "open" THEN "closed" ELSE c

\* Reading `conn` at line 70 when line 64 never bound it raises UnboundLocalError.
FinallyRaises(c) == c = "unbound"


(* -------------------------------- state -------------------------------- *)
NoWrite == [ever |-> FALSE, fresh |-> FALSE, table |-> NoTable]

Init ==
  /\ pc = "init"
  /\ runs = 0
  /\ sentences = <<>>
  /\ output = None
  /\ assembled = FALSE
  /\ embeddings = NoTable
  /\ exc = "none"
  /\ raised = "none"
  /\ httpStatus = 0
  /\ log = <<>>
  /\ exit = "none"
  /\ csvFile = Absent
  /\ dbTable = Absent
  /\ conn = "unbound"
  /\ httpCalls = 0
  /\ csvAttempts = 0
  /\ dbAttempts = 0
  /\ connOpens = 0
  /\ connCloses = 0
  /\ csvBefore = Absent
  /\ dbBefore = Absent
  /\ hist = [csv |-> NoWrite, db |-> NoWrite]

\* main(), lines 97-110: a fresh process; only the sinks are carried over.
main ==
  /\ pc \in {"init", "done"}
  /\ runs < MaxRuns
  /\ runs' = runs + 1
  /\ pc' = "load"
  /\ sentences' = <<>>
  /\ output' = None
  /\ assembled' = FALSE
  /\ embeddings' = NoTable
  /\ exc' = "none"
  /\ raised' = "none"
  /\ httpStatus' = 0
  /\ log' = <<>>
  /\ exit' = "none"
  /\ conn' = "unbound"
  /\ httpCalls' = 0
  /\ csvAttempts' = 0
  /\ dbAttempts' = 0
  /\ connOpens' = 0
  /\ connCloses' = 0
  /\ csvBefore' = csvFile
  /\ dbBefore' = dbTable
  /\ UNCHANGED <<csvFile, dbTable, hist>>

\* embedding_query, lines 75-78: open, json.load, the list comprehension.
LoadInput ==
  /\ pc = "load"
  /\ \E file \in InputFiles :
       IF LoadError(file) = "none"
       THEN /\ sentences' = Sentences(file)
            /\ pc' = "request"
            /\ UNCHANGED <<exc, exit>>
       ELSE /\ exc' = LoadError(file)
            /\ sentences' = sentences
            /\ IF LoadGuarded
               THEN pc' = ExceptTarget("load") /\ exit' = exit
               ELSE pc' = "done" /\ exit' = "uncaught"
  /\ UNCHANGED <<runs, output, assembled, embeddings, raised, httpStatus, log,
                 csvFile, dbTable, conn, httpCalls, csvAttempts, dbAttempts,
                 connOpens, connCloses, csvBefore, dbBefore, hist>>

\* The except clause that handles cls: one error line, then `raise`.
RequestFails(cls) ==
  /\ raised' = cls
  /\ log' = Append(log, ErrorLine(Label(Clauses[HandlerOf(cls)])))
  /\ IF Reraises
     THEN exc' = cls /\ pc' = ExceptTarget("request") /\ output' = output
     ELSE exc' = exc /\ pc' = "assemble" /\ output' = None

\* run_feature_extraction_pipeline, lines 24-51, called at line 81.
run_feature_extraction_pipeline ==
  /\ pc = "request"
  /\ httpCalls < MaxAttempts
  /\ httpCalls' = httpCalls + 1
  /\ \/ \E cls \in TransportFailures :
          httpStatus' = httpStatus /\ RequestFails(cls)
     \/ \E st \in Statuses, body \in Bodies :
          /\ httpStatus' = st
          /\ IF raise_for_status(st)
             THEN RequestFails("HTTPError")
             ELSE /\ output' = body
                  /\ pc' = "assemble"
                  /\ UNCHANGED <<exc, raised, log>>
  /\ UNCHANGED <<runs, sentences, assembled, embeddings, exit, csvFile,
                 dbTable, conn, csvAttempts, dbAttempts, connOpens,
                 connCloses, csvBefore, dbBefore, hist>>

\* embedding_query, line 82: embeddings = pd.DataFrame(output)
Assemble ==
  /\ pc = "assemble"
  /\ IF DataFrameFails(output)
     THEN /\ exc' = "ValueError"
          /\ pc' = ExceptTarget("assemble")
          /\ UNCHANGED <<assembled, embeddings>>
     ELSE /\ embeddings' = DataFrame(output)
          /\ assembled' = TRUE
          /\ pc' = "csv"
          /\ exc' = exc
  /\ UNCHANGED <<runs, sentences, output, raised, httpStatus, log, exit,
                 csvFile, dbTable, conn, httpCalls, csvAttempts, dbAttempts,
                 connOpens, connCloses, csvBefore, dbBefore, hist>>


\* How embeddings.to_csv can end: written; failed before the file was
\* touched (bad path, permissions); failed after it was opened for writing.
CsvOutcomes == {"ok", "fail_untouched", "fail_partial"}

\* save_embeddings_to_csv, lines 54-59, called at line 83.
save_embeddings_to_csv ==
  /\ pc = "csv"
  /\ csvAttempts < MaxAttempts
  /\ csvAttempts' = csvAttempts + 1
  /\ \E o \in CsvOutcomes :
       \/ /\ o = "ok"
          /\ csvFile' = to_csv(csvFile, embeddings)
          /\ log' = Append(log, InfoLine("Embeddings saved to csv"))
          /\ hist' = [hist EXCEPT !.csv = [ever |-> TRUE, fresh |-> TRUE,
                                           table |-> embeddings]]
          /\ pc' = "db"
          /\ exc' = exc
       \/ /\ o # "ok"
          /\ \/ o = "fail_untouched" /\ csvFile' = csvFile
             \/ /\ o = "fail_partial"
                /\ \E k \in 0..(Len(embeddings.rows) - 1) :
                     csvFile' = csv_partial(embeddings, k)
          /\ hist' = [hist EXCEPT !.csv.fresh = FALSE]
          /\ IF Catches("OSError")
             THEN log' = Append(log, ErrorLine("Failed to save embeddings to csv"))
             ELSE log' = log
          /\ IF CsvSinkRaises \/ ~Catches("OSError")
             THEN exc' = "OSError" /\ pc' = ExceptTarget("csv")
             ELSE exc' = exc /\ pc' = "db"
  /\ UNCHANGED <<runs, sentences, output, assembled, embeddings, raised,
                 httpStatus, exit, dbTable, conn, httpCalls, dbAttempts,
                 connOpens, connCloses, csvBefore, dbBefore>>

\* How lines 64-65 can end: connect raises; the write succeeds; the write
\* fails before the old table was dropped (database locked); the write
\* fails after the drop (a value sqlite cannot bind).
DbOutcomes == {"connect_fails", "ok", "fail_untouched", "fail_emptied"}

\* save_embeddings_to_db, lines 62-71, called at line 84; the return to
\* embedding_query's caller is part of the step.
save_embeddings_to_db ==
  /\ pc = "db"
  /\ dbAttempts < MaxAttempts
  /\ dbAttempts' = dbAttempts + 1
  /\ \E o \in DbOutcomes :
       LET c == IF o = "connect_fails" THEN "unbound" ELSE "open"
       IN  /\ connOpens' = connOpens + (IF c = "open" THEN 1 ELSE 0)
           /\ dbTable' = CASE o = "ok"           -> to_sql(dbTable, embeddings)
                           [] o = "fail_emptied" -> sql_emptied(embeddings)
                           [] OTHER              -> dbTable
           /\ hist' = IF o = "ok"
                      THEN [hist EXCEPT !.db = [ever |-> TRUE, fresh |-> TRUE,
                                                table |-> embeddings]]
                      ELSE [hist EXCEPT !.db.fresh = FALSE]
           /\ log' = IF o = "ok"
                     THEN Append(log, InfoLine("Embeddings saved to database"))
                     ELSE Append(log, ErrorLine("Failed to save embeddings to database"))
           /\ conn' = Finally(c, o # "ok")
           /\ connCloses' = connCloses +
                              (IF c = "open" /\ Finally(c, o # "ok") = "closed" THEN 1 ELSE 0)
           /\ IF FinallyRaises(c)
              THEN exc' = "UnboundLocalError" /\ pc' = ExceptTarget("db") /\ exit' = exit
              ELSE exc' = exc /\ pc' = "done" /\ exit' = "ok"
  /\ UNCHANGED <<runs, sentences, output, assembled, embeddings, raised,
                 httpStatus, csvFile, httpCalls, csvAttempts, csvBefore, dbBefore>>

\* embedding_query, lines 85-86: the handler of the try block, then return.
EmbeddingQueryExcept ==
  /\ pc = "except"
  /\ IF Catches(exc)
     THEN /\ log' = Append(log, ErrorLine("Embedding query failed"))
          /\ exc' = "none"
          /\ exit' = "ok"
     ELSE /\ exit' = "uncaught"
          /\ UNCHANGED <<log, exc>>
  /\ pc' = "done"
  /\ UNCHANGED <<runs, sentences, output, assembled, embeddings, raised,
                 httpStatus, csvFile, dbTable, conn, httpCalls, csvAttempts,
                 dbAttempts, connOpens, connCloses, csvBefore, dbBefore, hist>>

Next ==
  \/ main
  \/ LoadInput
  \/ run_feature_extraction_pipeline
  \/ Assemble
  \/ save_embeddings_to_csv
  \/ save_embeddings_to_db
  \/ EmbeddingQueryExcept

Spec == Init /\ [][Next]_vars

TypeOK ==
  /\ pc \in {"init", "load", "request", "assemble", "csv", "db", "except", "done"}
  /\ runs \in 0..MaxRuns
  /\ exit \in {"none", "ok", "uncaught"}
  /\ conn \in {"unbound", "open", "closed"}
  /\ assembled \in BOOLEAN


(* ------------------------------ properties ----------------------------- *)
HasLine(l) == \E i \in 1..Len(log) : log[i] = l

NetLabels == {"HTTP Error", "Error Connecting", "Timeout Error", "Request Exception"}

LoadErrors == {"FileNotFoundError", "JSONDecodeError", "KeyError"}

CsvSaved == HasLine(InfoLine("Embeddings saved to csv"))

CsvFailed == HasLine(ErrorLine("Failed to save embeddings to csv"))

DbSaved == HasLine(InfoLine("Embeddings saved to database"))

DbFailed == HasLine(ErrorLine("Failed to save embeddings to database"))

IsPrefix(a, b) == Len(a) <= Len(b) /\ a = SubSeq(b, 1, Len(a))

\* C1 as stated: a run in which the Embedding Client failed ends with the
\* failure uncaught (process failure), not as a normal completion.
C1_NetworkFailureEndsRunUncaught ==
  (pc = "done" /\ raised # "none") => exit = "uncaught"

\* C1 amended: a network failure is logged by the client and re-raised into
\* embedding_query, whose handler logs it once more and returns; the run
\* ends as a normal completion with both error lines in the log.
C1_NetworkFailureLoggedThenCaught ==
  (pc = "done" /\ raised # "none") =>
     /\ exit = "ok"
     /\ exc = "none"
     /\ Len(log) = 2
     /\ log[1].level = "ERROR" /\ log[1].msg \in NetLabels
     /\ log[2] = ErrorLine("Embedding query failed")

C1_Witness == pc = "done" /\ raised = "ConnectionError" /\ exit = "ok" /\ Len(log) = 2

\* C2 as stated: whatever fails in the database sink (connect or write),
\* no exception leaves save_embeddings_to_db.
C2_DbSinkSwallowsEveryFailure ==
  dbAttempts > 0 => (pc # "except" /\ exc = "none")

\* C3: once the table is assembled both sinks are attempted whatever the
\* other's outcome, embedding_query returns normally, a succeeding database
\* write completes after a failed CSV write, and a failed database write
\* leaves the CSV output of the run in place.
C3_SinksIndependent ==
  (pc = "done" /\ assembled) =>
     /\ csvAttempts = 1
     /\ dbAttempts = 1
     /\ exit = "ok"
     /\ DbSaved => (dbTable.exists /\ dbTable.rows = embeddings.rows)
     /\ CsvSaved => (csvFile.exists /\ csvFile.rows = embeddings.rows)

C3_Witness ==
  /\ pc = "done"
  /\ CsvFailed
  /\ DbSaved
  /\ Len(embeddings.rows) > 0
  /\ dbTable.rows = embeddings.rows

\* C4: in a run whose request failed or whose response could not be
\* assembled, no sink is attempted, no connection is opened, the CSV file
\* and the table are as they were before the run, an error line is logged,
\* and a 4xx/5xx status is logged as an HTTP error.
C4_NoSinkWithoutTable ==
  (raised # "none" \/ (pc \in {"except", "done"} /\ httpCalls > 0 /\ ~assembled)) =>
     /\ csvAttempts = 0
     /\ dbAttempts = 0
     /\ connOpens = 0
     /\ csvFile = csvBefore
     /\ dbTable = dbBefore
     /\ pc = "done" => \E i \in 1..Len(log) : log[i].level = "ERROR"
     /\ httpStatus >= 400 => HasLine(ErrorLine("HTTP Error"))

C4_Witness ==
  /\ pc = "done"
  /\ httpStatus = 500
  /\ csvBefore.exists /\ csvBefore.rows # <<>>
  /\ dbBefore.exists /\ dbBefore.rows # <<>>
  /\ csvFile = csvBefore
  /\ dbTable = dbBefore

\* C5: once save_embeddings_to_db has ended, however it ended, no
\* connection it acquired is open and it closed each acquired connection
\* exactly once.
C5_ConnectionReleased ==
  dbAttempts > 0 => (conn # "open" /\ connCloses = connOpens)

C5_Witness == pc = "done" /\ DbFailed /\ connOpens = 1 /\ conn = "closed"

\* C6 as stated: each sink holds exactly the table of the most recent run
\* whose write to it succeeded.
C6_SinkHoldsLastSuccessfulWrite ==
  /\ hist.db.ever => (dbTable.exists /\ dbTable.rows = hist.db.table.rows)
  /\ hist.csv.ever => (csvFile.exists /\ csvFile.rows = hist.csv.table.rows)

\* C6 amended: when the most recent write to a sink succeeded the sink
\* holds exactly the rows of that run's table, none of an earlier run; and
\* a sink is always either as the run found it or a leading part of this
\* run's table (a failed write may truncate, it never appends or merges).
C6_SinkReplacedNeverAppended ==
  /\ hist.db.fresh => (dbTable.exists /\ dbTable.rows = hist.db.table.rows)
  /\ hist.csv.fresh => (csvFile.exists /\ csvFile.rows = hist.csv.table.rows)
  /\ dbTable = dbBefore \/ IsPrefix(dbTable.rows, embeddings.rows)
  /\ csvFile = csvBefore \/ IsPrefix(csvFile.rows, embeddings.rows)

C6_Witness ==
  /\ pc = "done"
  /\ runs = 2
  /\ hist.db.fresh /\ hist.csv.fresh
  /\ dbBefore.rows # <<>> /\ csvBefore.rows # <<>>
  /\ ~IsPrefix(dbBefore.rows, dbTable.rows)
  /\ ~IsPrefix(csvBefore.rows, csvFile.rows)
  /\ dbTable.rows = embeddings.rows

\* The label C7 gives each failure class: every timeout is a timeout error.
ClaimedLabel(cls) ==
  CASE cls = "HTTPError"                      -> "HTTP Error"
    [] cls = "ConnectionError"                -> "Error Connecting"
    [] cls \in {"ConnectTimeout", "ReadTimeout"} -> "Timeout Error"
    [] OTHER                                  -> "Request Exception"

\* The label with connect timeouts counted as connection errors.
AmendedLabel(cls) ==
  CASE cls = "HTTPError"                           -> "HTTP Error"
    [] cls \in {"ConnectionError", "ConnectTimeout"} -> "Error Connecting"
    [] cls = "ReadTimeout"                         -> "Timeout Error"
    [] OTHER                                       -> "Request Exception"

\* C7 as stated: the client logs exactly one error line, labelled by the
\* failure's class with every timeout (connect and read) a timeout error,
\* and re-raises the same failure.
C7_OneLineLabelledByClass ==
  (pc = "except" /\ raised # "none") =>
     /\ log = <<ErrorLine(ClaimedLabel(raised))>>
     /\ exc = raised

\* C7 amended: as stated, except that a connect timeout (a connection
\* error and a timeout at once) is logged as a connection error; only read
\* timeouts are logged as timeout errors.
C7_OneLineConnectTimeoutAsConnection ==
  (pc = "except" /\ raised # "none") =>
     /\ log = <<ErrorLine(AmendedLabel(raised))>>
     /\ exc = raised

C7_Witness ==
  /\ pc = "except"
  /\ raised = "ConnectTimeout"
  /\ exc = "ConnectTimeout"
  /\ log = <<ErrorLine("Error Connecting")>>

\* C8: the table has one row per top-level element of the response,
\* whatever the number of sentences; a shorter response raises nothing and
\* both sinks are written with the table.
C8_RowPerResponseElement ==
  assembled =>
     /\ Len(embeddings.rows) = Len(output.data)
     /\ \A i \in 1..Len(output.data) :
          SubSeq(embeddings.rows[i], 1, Len(output.data[i])) = output.data[i]
     /\ pc = "csv" => exc = "none"
     /\ pc = "done" =>
          /\ csvAttempts = 1 /\ dbAttempts = 1
          /\ CsvSaved => Len(csvFile.rows) = Len(output.data)
          /\ DbSaved => Len(dbTable.rows) = Len(output.data)

C8_Witness ==
  /\ pc = "done"
  /\ assembled
  /\ Len(output.data) > 0
  /\ Len(output.data) < Len(sentences)
  /\ CsvSaved /\ DbSaved
  /\ Len(csvFile.rows) = Len(output.data)
  /\ exit = "ok"

\* A run whose input could not be loaded.
LoadFailed == exc \in LoadErrors \/ (pc \in {"except", "done"} /\ httpCalls = 0)

\* C9: a failure to load the input is not caught: the run ends with it
\* uncaught, nothing is logged, no request was issued and no sink touched.
C9_LoadFailureUnhandled ==
  LoadFailed =>
     /\ pc = "done"
     /\ exit = "uncaught"
     /\ exc \in LoadErrors
     /\ log = <<>>
     /\ httpCalls = 0
     /\ csvAttempts = 0 /\ dbAttempts = 0 /\ connOpens = 0
     /\ csvFile = csvBefore /\ dbTable = dbBefore

C9_Witness ==
  /\ pc = "done"
  /\ exc = "KeyError"
  /\ exit = "uncaught"
  /\ csvBefore.exists /\ dbBefore.exists

\* C10: no retry: in a run at most one request is issued and each sink is
\* written at most once, whatever failed.
C10_NoRetry ==
  /\ httpCalls <= 1
  /\ csvAttempts <= 1
  /\ dbAttempts <= 1

C10_Witness ==
  /\ pc = "done"
  /\ CsvFailed /\ DbFailed
  /\ httpCalls = 1 /\ csvAttempts = 1 /\ dbAttempts = 1

====
